---- MODULE Spec2Model ----
(***************************************************************************)
(* State-machine model of src/index.tsx: API-key onboarding, the image and *)
(* video generation flows, prompt suggestions, the attachment and the      *)
(* capped history.  Every async function is cut at its awaits: one action  *)
(* per synchronous stretch, as the single UI thread runs it.               *)
(***************************************************************************)
EXTENDS Integers, Sequences, FiniteSets, TLC

\* ------------------------------------------------------------------ bounds
MaxGens == 2          \* generations started in one session
MaxSubmits == 2       \* key validations started in one session (init's included)
MaxRefresh == 2       \* suggestion refreshes in flight at once
MaxClicks == 3        \* direct invocations of handleGenerateClick (SpecDirect)
MaxPollLatency == 0   \* longest latency of one status poll, in 5-second steps
MaxInserts == 3
MaxGensSuggest == 1      \* generations started in one session of SpecSuggest
MaxSelect == 3           \* file selections in one session of SpecAttach
MaxLatePoll == 1         \* latency of one poll in SpecVideo, in units of 5000 ms       \* insertions applied in SpecHistory

\* ------------------------------------------------------- program constants
HISTORY_CAP == 20
TIMEOUT_MS == 60000
POLL_MS == 10000
COUNTDOWN_S == 60

\* ------------------------------------------------------------ value spaces
NoKey == "null"
Keys == {"k1", "k2"}
NoImage == "null"
Files == {"f1"}
AttachFiles == {"f1", "f2"}
UserTexts == {"", " ", " a"}
InitialExamples == <<"horse">>
Batches == {<< >>, <<" a">>}

\* String.prototype.trim on the texts of the model
Trim(s) == CASE s = " " -> ""
             [] s = " a" -> "a"
             [] OTHER -> s

\* ------------------------------------------------------------------ status
StInvalidKey == "API Key is invalid or has insufficient quota. Please try again."
StDailyFixed == "Daily video limit reached. Try again tomorrow."
StDailyLimit == "You have reached the daily limit for free video generations. Please try again tomorrow."
StHighDemand == "The service is currently under high demand. Please try again in a few moments."
StQuota == "You've exceeded your API usage quota. Please wait and try again later, or check your Google AI Studio plan and billing details."
StUnexpected == "An unexpected error occurred. Please try again."
StAnalyzing == "Analyzing image for inspiration..."
StAnalysisFailed == "Image analysis failed. Using the original prompt instead."
StGeneratingImage == "Generating image..."
StImageOk == "Image generated successfully."
StVideoOk == "Video generated successfully."
StTimeout == "Video generation timed out after 60 seconds. The model may be under high demand or the request is complex. Please try again later."
StExamplesQuota == "Could not fetch new examples due to API quota limits."
StExamplesFailed == "Could not fetch new examples at this time."

\* ------------------------------------------------------------------ errors
\* An error as analyzeApiError reads it: code is error.error.code (0 when
\* absent), text the phrases of JSON.stringify(error), in the case the service
\* sent them.
Phrases == {"limited free generations per day", "Quota", "RESOURCE_EXHAUSTED",
            "quota", "High Demand", "at capacity"}
Codes == {0, 429, 500}
Payloads == [code : Codes, text : SUBSET Phrases]

\* String.prototype.toLowerCase on the phrases
ToLowerCase(p) == CASE p = "Quota" -> "quota"
                    [] p = "RESOURCE_EXHAUSTED" -> "resource_exhausted"
                    [] p = "High Demand" -> "high demand"
                    [] OTHER -> p

\* errorString.includes(s), errorString = JSON.stringify(error).toLowerCase()
Includes(error, s) == \E p \in error.text : ToLowerCase(p) = s

analyzeApiError_QuotaFirst(error) ==
    IF Includes(error, "quota") \/ Includes(error, "resource_exhausted") \/ error.code = 429
    THEN "GENERAL_QUOTA"
    ELSE IF Includes(error, "limited free generations per day") THEN "VIDEO_DAILY_LIMIT"
    ELSE IF Includes(error, "high demand") \/ Includes(error, "at capacity") THEN "HIGH_DEMAND"
    ELSE "OTHER"

analyzeApiError_NoCode(error) ==
    IF Includes(error, "limited free generations per day") THEN "VIDEO_DAILY_LIMIT"
    ELSE IF Includes(error, "quota") \/ Includes(error, "resource_exhausted")
    THEN "GENERAL_QUOTA"
    ELSE IF Includes(error, "high demand") \/ Includes(error, "at capacity") THEN "HIGH_DEMAND"
    ELSE "OTHER"

analyzeApiError(error) ==
    IF Includes(error, "limited free generations per day") THEN "VIDEO_DAILY_LIMIT"
    ELSE IF Includes(error, "quota") \/ Includes(error, "resource_exhausted") \/ error.code = 429
    THEN "GENERAL_QUOTA"
    ELSE IF Includes(error, "high demand") \/ Includes(error, "at capacity") THEN "HIGH_DEMAND"
    ELSE "OTHER"

errorMessage_Generic(type) == StUnexpected

\* The message the top-level handler shows for a category
errorMessage(type) ==
    CASE type = "VIDEO_DAILY_LIMIT" -> StDailyLimit
      [] type = "HIGH_DEMAND" -> StHighDemand
      [] type = "GENERAL_QUOTA" -> StQuota
      [] OTHER -> StUnexpected

NoError == [code |-> 0, text |-> {"none"}]
\* new Error(...), a TypeError of fetch: JSON.stringify gives "{}"
PlainError == [code |-> 0, text |-> {}]
\* The errors the remote calls of a generation throw in Spec
GenErrors == { [code |-> 429, text |-> {"limited free generations per day", "RESOURCE_EXHAUSTED"}],
               [code |-> 429, text |-> {"RESOURCE_EXHAUSTED"}],
               [code |-> 0, text |-> {"High Demand"}],
               PlainError }

\* ----------------------------------------------------------------- history
addToHistory_NoCap(h, type, dataUrl, prompt, id) ==
    <<[id |-> id, type |-> type, dataUrl |-> dataUrl, prompt |-> prompt]>> \o h

addToHistory_DropNewest(h, type, dataUrl, prompt, id) ==
    LET u == <<[id |-> id, type |-> type, dataUrl |-> dataUrl, prompt |-> prompt]>> \o h
    IN  IF Len(u) > HISTORY_CAP THEN SubSeq(u, 2, Len(u)) ELSE u

\* history.unshift(newItem); if (history.length > 20) history.pop()
addToHistory(h, type, dataUrl, prompt, id) ==
    LET u == <<[id |-> id, type |-> type, dataUrl |-> dataUrl, prompt |-> prompt]>> \o h
    IN  IF Len(u) > HISTORY_CAP THEN SubSeq(u, 1, Len(u) - 1) ELSE u

\* ---------------------------------------------------------------- UI state
promptIsEmpty(p) == Trim(p) = ""

updateUIState_IgnoreLimit(gen, client, p, video, limit, newPrompts, st) ==
    [ui |-> [generate |-> gen \/ promptIsEmpty(p),
             imageMode |-> gen, videoMode |-> gen, upload |-> gen,
             examples |-> gen, prompt |-> gen,
             refresh |-> gen \/ newPrompts,
             label |-> IF gen /\ client # NoKey THEN "Generating..."
                       ELSE IF client = NoKey THEN "Setup Required" ELSE "Generate"],
     status |-> st]

\* updateUIState(): the disabled flags, the label and, in the daily-limit
\* branch, the status, from the state at the call
updateUIState(gen, client, p, video, limit, newPrompts, st) ==
    LET blocked == ~gen /\ client # NoKey /\ video /\ limit
    IN  [ui |-> [generate |-> gen \/ promptIsEmpty(p) \/ blocked,
                 imageMode |-> gen, videoMode |-> gen, upload |-> gen,
                 examples |-> gen, prompt |-> gen,
                 refresh |-> gen \/ newPrompts,
                 label |-> IF gen /\ client # NoKey THEN "Generating..."
                           ELSE IF client = NoKey THEN "Setup Required" ELSE "Generate"],
         status |-> IF blocked THEN StDailyFixed ELSE st]

\* ------------------------------------------------------------------- state
VARIABLES
    isGenerating, isVideoDailyLimitReached, countdownInterval, timers,
    uploadedImage, history, savedHistory, apiKey, ai, storedKey,
    isGeneratingNewPrompts, examplePrompts,
    promptValue, videoChecked, status, ui, modalVisible, saveDisabled,
    vals, gens, refreshing, fileReads, readers, nextId,
    clicks, inserts, classified, fileLog

app == <<isGenerating, isVideoDailyLimitReached, countdownInterval, timers>>
keyv == <<apiKey, ai, storedKey, modalVisible, saveDisabled, vals>>
hist == <<history, savedHistory, nextId, readers>>
sugg == <<isGeneratingNewPrompts, examplePrompts, refreshing>>
file == <<uploadedImage, fileReads>>
dom == <<promptValue, videoChecked, status, ui>>
aux == <<clicks, inserts, classified, fileLog>>
vars == <<app, keyv, hist, sugg, file, dom, gens, aux>>


\* What updateUIState() computes in the current state, with the busy flag,
\* the client, the sticky flag, the refresh flag and the status given
UIAt(gen, client, limit, newPrompts, st) ==
    updateUIState(gen, client, promptValue, videoChecked, limit, newPrompts, st)

\* ------------------------------------------------------------------- init
\* init(): handlers wired, isGenerating = true, updateUIState(), loadHistory(),
\* then the stored key, if any, goes to initializeAppWithKey (up to its await)
InitWith(saved) ==
    /\ isGenerating = TRUE
    /\ isVideoDailyLimitReached = FALSE
    /\ countdownInterval = 0
    /\ timers = {}
    /\ uploadedImage = NoImage
    /\ savedHistory = saved
    /\ history = saved
    /\ nextId = Len(saved) + 1
    /\ readers = {}
    /\ ai = NoKey
    /\ storedKey \in {NoKey, "k1"}
    /\ apiKey = storedKey
    /\ vals = IF storedKey = NoKey THEN << >>
              ELSE <<[key |-> storedKey, pc |-> "probe", via |-> "init"]>>
    /\ modalVisible = (storedKey = NoKey)
    /\ saveDisabled = FALSE
    /\ isGeneratingNewPrompts = FALSE
    /\ examplePrompts = InitialExamples
    /\ refreshing = 0
    /\ fileReads = {}
    /\ promptValue = ""
    /\ videoChecked = FALSE
    /\ status = ""
    /\ ui = updateUIState(TRUE, NoKey, "", FALSE, FALSE, FALSE, "").ui
    /\ gens = << >>
    /\ clicks = 0
    /\ inserts = 0
    /\ classified = [error |-> NoError, type |-> "none"]
    /\ fileLog = [n |-> 0, last |-> NoImage, removed |-> FALSE]

\* A session that starts with no saved history
Init == InitWith(<< >>)

\* ------------------------------------------------------------- key store
\* handleSaveApiKey() up to the await of initializeAppWithKey(key): the save
\* button's click and the Enter key of the key field both call it; only the
\* click is held back by the button being disabled
handleSaveApiKey(key, enter) ==
    /\ modalVisible
    /\ enter \/ ~saveDisabled
    /\ Len(vals) < MaxSubmits
    /\ saveDisabled' = TRUE
    /\ apiKey' = key
    /\ vals' = Append(vals, [key |-> key, pc |-> "probe", via |-> "user"])
    /\ UNCHANGED <<ai, storedKey, modalVisible>>
    /\ UNCHANGED <<app, hist, sugg, file, dom, gens, aux>>

ValidationSucceeds_StoreCurrent(i) ==
    /\ vals[i].pc = "probe"
    /\ vals' = [vals EXCEPT ![i].pc = "ok"]
    /\ ai' = vals[i].key
    /\ storedKey' = apiKey
    /\ isGenerating' = FALSE
    /\ ui' = UIAt(FALSE, vals[i].key, isVideoDailyLimitReached, isGeneratingNewPrompts, status).ui
    /\ modalVisible' = FALSE
    /\ status' = ""
    /\ UNCHANGED <<apiKey, saveDisabled>>
    /\ UNCHANGED <<isVideoDailyLimitReached, countdownInterval, timers>>
    /\ UNCHANGED <<promptValue, videoChecked>>
    /\ UNCHANGED <<hist, sugg, file, gens, aux>>

\* initializeAppWithKey(): the probe returned
ValidationSucceeds(i) ==
    /\ vals[i].pc = "probe"
    /\ vals' = [vals EXCEPT ![i].pc = "ok"]
    /\ ai' = vals[i].key
    /\ storedKey' = vals[i].key
    /\ isGenerating' = FALSE
    /\ ui' = UIAt(FALSE, vals[i].key, isVideoDailyLimitReached, isGeneratingNewPrompts, status).ui
    /\ modalVisible' = FALSE
    /\ status' = ""
    /\ UNCHANGED <<apiKey, saveDisabled>>
    /\ UNCHANGED <<isVideoDailyLimitReached, countdownInterval, timers>>
    /\ UNCHANGED <<promptValue, videoChecked>>
    /\ UNCHANGED <<hist, sugg, file, gens, aux>>

\* initializeAppWithKey(): the probe threw; then handleSaveApiKey's
\* "if (!ai)" re-enables the save button
ValidationFails(i) ==
    /\ vals[i].pc = "probe"
    /\ vals' = [vals EXCEPT ![i].pc = "failed"]
    /\ status' = StInvalidKey
    /\ isGenerating' = TRUE
    /\ ui' = UIAt(TRUE, ai, isVideoDailyLimitReached, isGeneratingNewPrompts, StInvalidKey).ui
    /\ storedKey' = NoKey
    /\ apiKey' = NoKey
    /\ modalVisible' = TRUE
    /\ saveDisabled' = IF vals[i].via = "user" /\ ai = NoKey THEN FALSE ELSE saveDisabled
    /\ UNCHANGED ai
    /\ UNCHANGED <<isVideoDailyLimitReached, countdownInterval, timers>>
    /\ UNCHANGED <<promptValue, videoChecked>>
    /\ UNCHANGED <<hist, sugg, file, gens, aux>>

\* ------------------------------------------------------------ DOM events
\* 'input' on the prompt field: the user types, then updateUIState()
PromptInput(text) ==
    /\ ~ui.prompt
    /\ promptValue # text
    /\ promptValue' = text
    /\ LET r == updateUIState(isGenerating, ai, text, videoChecked,
                              isVideoDailyLimitReached, isGeneratingNewPrompts, status)
       IN  ui' = r.ui /\ status' = r.status
    /\ UNCHANGED videoChecked
    /\ UNCHANGED <<app, keyv, hist, sugg, file, gens, aux>>

\* click on an example prompt (populateExamplePrompts's listener)
ExampleClick(n) ==
    /\ ~ui.examples
    /\ n \in 1..Len(examplePrompts)
    /\ promptValue' = examplePrompts[n]
    /\ LET r == updateUIState(isGenerating, ai, examplePrompts[n], videoChecked,
                              isVideoDailyLimitReached, isGeneratingNewPrompts, status)
       IN  ui' = r.ui /\ status' = r.status
    /\ UNCHANGED videoChecked
    /\ UNCHANGED <<app, keyv, hist, sugg, file, gens, aux>>

\* 'change' on a mode radio: handleModeChange()
handleModeChange(video) ==
    /\ IF video THEN ~ui.videoMode ELSE ~ui.imageMode
    /\ videoChecked # video
    /\ videoChecked' = video
    /\ LET r == updateUIState(isGenerating, ai, promptValue, video,
                              isVideoDailyLimitReached, isGeneratingNewPrompts, status)
       IN  ui' = r.ui /\ status' = r.status
    /\ UNCHANGED promptValue
    /\ UNCHANGED <<app, keyv, hist, sugg, file, gens, aux>>


\* ------------------------------------------------------------ generation
\* A request to the remote service: the prompt is the user's text as typed,
\* the analysis instruction built around it, or the enriched text returned
Req(api, kind, text, image, key) ==
    [api |-> api, prompt |-> [kind |-> kind, text |-> text], image |-> image, key |-> key]

\* What the service returns for generation g when the request carried the
\* user's prompt or the enriched one; the history keeps it as dataUrl
Result(g, kind) == [gen |-> g, for |-> kind]

\* An operation as generateVideos / getVideosOperation return it
Operations ==
    {[done |-> FALSE, result |-> "none", err |-> NoError],
     [done |-> TRUE, result |-> "uri", err |-> NoError],
     [done |-> TRUE, result |-> "nouri", err |-> NoError]}
    \cup {[done |-> TRUE, result |-> "error", err |-> e] : e \in GenErrors}

PollLatencies == {5000 * n : n \in 0..MaxPollLatency}
LatePollLatencies == {5000 * n : n \in 0..MaxLatePoll}

resetUI_KeepBusy(limit, st) ==
    LET r == UIAt(isGenerating, ai, limit, isGeneratingNewPrompts, st)
    IN  [isGenerating |-> isGenerating,
         timers |-> IF countdownInterval # 0 THEN timers \ {countdownInterval} ELSE timers,
         countdownInterval |-> 0, ui |-> r.ui, status |-> r.status]

\* resetUI(), with the sticky flag and the status as they are at the call
resetUI(limit, st) ==
    LET r == UIAt(FALSE, ai, limit, isGeneratingNewPrompts, st)
    IN  [isGenerating |-> FALSE,
         timers |-> IF countdownInterval # 0 THEN timers \ {countdownInterval} ELSE timers,
         countdownInterval |-> 0, ui |-> r.ui, status |-> r.status]

\* A generation that ended: its locals are gone, its outcome is kept
Done(rec, outcome, e) ==
    [mode |-> rec.mode, prompt |-> "", image |-> NoImage, elapsed |-> 0,
     pc |-> "done", reqs |-> << >>, outcome |-> outcome, err |-> e]

\* The sticky flag after the top-level handler classified an error
LimitAfter_Never(e) == isVideoDailyLimitReached

LimitAfter(e) ==
    isVideoDailyLimitReached \/ analyzeApiError(e) = "VIDEO_DAILY_LIMIT"

\* handleGenerateClick's catch: classify, set the sticky flag, setStatus, resetUI
Catch(g, rec, e) ==
    LET r == resetUI(LimitAfter(e), errorMessage(analyzeApiError(e)))
    IN  /\ gens' = [gens EXCEPT ![g] = Done(rec, "failed", e)]
        /\ isVideoDailyLimitReached' = LimitAfter(e)
        /\ isGenerating' = r.isGenerating
        /\ timers' = r.timers
        /\ countdownInterval' = r.countdownInterval
        /\ ui' = r.ui
        /\ status' = r.status
        /\ UNCHANGED <<promptValue, videoChecked>>
        /\ UNCHANGED <<keyv, hist, sugg, file, aux>>

TimedOut_WithEntry(g, rec) ==
    LET r == resetUI(isVideoDailyLimitReached, StTimeout)
    IN  /\ gens' = [gens EXCEPT ![g] = Done(rec, "timeout", NoError)]
        /\ isGenerating' = r.isGenerating
        /\ timers' = r.timers
        /\ countdownInterval' = r.countdownInterval
        /\ ui' = r.ui
        /\ status' = r.status
        /\ history' = addToHistory(history, "video", Result(g, "user"), rec.prompt, nextId)
        /\ savedHistory' = history'
        /\ nextId' = nextId + 1
        /\ UNCHANGED <<isVideoDailyLimitReached, promptValue, videoChecked, readers>>
        /\ UNCHANGED <<keyv, sugg, file, aux>>

\* generateVideo's "if (!operation.done)": setStatus, resetUI, return
TimedOut(g, rec) ==
    LET r == resetUI(isVideoDailyLimitReached, StTimeout)
    IN  /\ gens' = [gens EXCEPT ![g] = Done(rec, "timeout", NoError)]
        /\ isGenerating' = r.isGenerating
        /\ timers' = r.timers
        /\ countdownInterval' = r.countdownInterval
        /\ ui' = r.ui
        /\ status' = r.status
        /\ UNCHANGED <<isVideoDailyLimitReached, promptValue, videoChecked>>
        /\ UNCHANGED <<keyv, hist, sugg, file, aux>>

\* A step that only moves generation g on
Moves(g, rec) ==
    /\ gens' = [gens EXCEPT ![g] = rec]
    /\ UNCHANGED <<app, keyv, hist, sugg, file, dom, aux>>

GenerateGuard_NoClient == isGenerating \/ promptIsEmpty(promptValue)

GenerateGuard_NoBusy == promptIsEmpty(promptValue) \/ ai = NoKey

GenerateGuard_NoTrim == isGenerating \/ promptValue = "" \/ ai = NoKey

\* handleGenerateClick's early return
GenerateGuard == isGenerating \/ promptIsEmpty(promptValue) \/ ai = NoKey

NewGen_Trimmed ==
    LET base == [mode |-> IF videoChecked THEN "video" ELSE "image",
                 prompt |-> promptValue, image |-> uploadedImage,
                 elapsed |-> 0, outcome |-> "none", err |-> NoError]
    IN  IF videoChecked
        THEN base @@ [pc |-> "generateVideos",
                      reqs |-> <<Req("generateVideos", "user", Trim(promptValue), uploadedImage, ai)>>]
        ELSE IF uploadedImage # NoImage
        THEN base @@ [pc |-> "enrich",
                      reqs |-> <<Req("generateContent", "analysis", Trim(promptValue), uploadedImage, ai)>>]
        ELSE base @@ [pc |-> "generateImages",
                      reqs |-> <<Req("generateImages", "user", Trim(promptValue), NoImage, ai)>>]

\* The generation as handleGenerateClick starts it: generateVideo() or
\* generateImage() up to the first await
NewGen ==
    LET base == [mode |-> IF videoChecked THEN "video" ELSE "image",
                 prompt |-> promptValue, image |-> uploadedImage,
                 elapsed |-> 0, outcome |-> "none", err |-> NoError]
    IN  IF videoChecked
        THEN base @@ [pc |-> "generateVideos",
                      reqs |-> <<Req("generateVideos", "user", promptValue, uploadedImage, ai)>>]
        ELSE IF uploadedImage # NoImage
        THEN base @@ [pc |-> "enrich",
                      reqs |-> <<Req("generateContent", "analysis", promptValue, uploadedImage, ai)>>]
        ELSE base @@ [pc |-> "generateImages",
                      reqs |-> <<Req("generateImages", "user", promptValue, NoImage, ai)>>]

\* handleGenerateClick(), whoever calls it
handleGenerateClick ==
    /\ clicks < MaxClicks
    /\ clicks' = clicks + 1
    /\ UNCHANGED <<inserts, classified, fileLog>>
    /\ IF GenerateGuard
       THEN UNCHANGED <<app, keyv, hist, sugg, file, dom, gens>>
       ELSE /\ Len(gens) < MaxGens
            /\ isGenerating' = TRUE
            /\ ui' = UIAt(TRUE, ai, isVideoDailyLimitReached, isGeneratingNewPrompts, status).ui
            /\ gens' = Append(gens, NewGen)
            /\ IF videoChecked
               THEN /\ status' = ""
                    /\ timers' = (timers \ {countdownInterval}) \cup {Len(gens) + 1}
                    /\ countdownInterval' = Len(gens) + 1
               ELSE /\ status' = IF uploadedImage # NoImage THEN StAnalyzing
                                 ELSE StGeneratingImage
                    /\ UNCHANGED <<timers, countdownInterval>>
            /\ UNCHANGED <<isVideoDailyLimitReached, promptValue, videoChecked>>
            /\ UNCHANGED <<keyv, hist, sugg, file>>

\* click on the generate button: a disabled button fires no click
GenerateClick ==
    /\ ~ui.generate
    /\ handleGenerateClick

\* generateImage(): the analysis request returned the enriched prompt; then
\* setStatus('Generating image...') and the image request, to its await
EnrichReturned(g) ==
    /\ gens' = [gens EXCEPT ![g].pc = "generateImages",
                  ![g].reqs = Append(@, Req("generateImages", "enriched", gens[g].prompt, NoImage, ai))]
    /\ status' = StGeneratingImage
    /\ UNCHANGED <<promptValue, videoChecked, ui>>
    /\ UNCHANGED <<app, keyv, hist, sugg, file, aux>>

\* generateImage(): the analysis request threw e: a general-quota error is
\* rethrown; after any other the image request is sent with the user's prompt
EnrichThrew(g, e) ==
    IF analyzeApiError(e) = "GENERAL_QUOTA"
    THEN Catch(g, gens[g], e)
    ELSE /\ gens' = [gens EXCEPT ![g].pc = "generateImages",
                ![g].reqs = Append(@, Req("generateImages", "user", gens[g].prompt, NoImage, ai))]
         /\ status' = StGeneratingImage
         /\ UNCHANGED <<promptValue, videoChecked, ui>>
         /\ UNCHANGED <<app, keyv, hist, sugg, file, aux>>

\* generateImage(): the analysis request returned or threw
EnrichDone(g) ==
    /\ gens[g].pc = "enrich"
    /\ \/ EnrichReturned(g)
       \/ \E e \in GenErrors : EnrichThrew(g, e)

\* The text of the last request of generation g: the user's prompt, or the
\* text the analysis returned
FinalPrompt(g) ==
    LET p == gens[g].reqs[Len(gens[g].reqs)].prompt
    IN  IF p.kind = "enriched" THEN "enriched prompt" ELSE p.text

ImageDone_FinalPrompt(g) ==
    /\ gens[g].pc = "generateImages"
    /\ \/ LET r == resetUI(isVideoDailyLimitReached, status)
          IN  /\ gens' = [gens EXCEPT ![g] = Done(gens[g], "success", NoError)]
              /\ history' = addToHistory(history, "image",
                                          Result(g, gens[g].reqs[Len(gens[g].reqs)].prompt.kind),
                                          FinalPrompt(g), nextId)
              /\ savedHistory' = history'
              /\ nextId' = nextId + 1
              /\ isGenerating' = r.isGenerating
              /\ timers' = r.timers
              /\ countdownInterval' = r.countdownInterval
              /\ ui' = r.ui
              /\ status' = StImageOk
              /\ UNCHANGED <<isVideoDailyLimitReached, promptValue, videoChecked, readers>>
              /\ UNCHANGED <<keyv, sugg, file, aux>>
       \/ \E e \in GenErrors : Catch(g, gens[g], e)

\* generateImage(): generateImages returned (display, addToHistory, resetUI,
\* setStatus) or threw
ImageDone(g) ==
    /\ gens[g].pc = "generateImages"
    /\ \/ LET r == resetUI(isVideoDailyLimitReached, status)
          IN  /\ gens' = [gens EXCEPT ![g] = Done(gens[g], "success", NoError)]
              /\ history' = addToHistory(history, "image",
                                          Result(g, gens[g].reqs[Len(gens[g].reqs)].prompt.kind),
                                          gens[g].prompt, nextId)
              /\ savedHistory' = history'
              /\ nextId' = nextId + 1
              /\ isGenerating' = r.isGenerating
              /\ timers' = r.timers
              /\ countdownInterval' = r.countdownInterval
              /\ ui' = r.ui
              /\ status' = StImageOk
              /\ UNCHANGED <<isVideoDailyLimitReached, promptValue, videoChecked, readers>>
              /\ UNCHANGED <<keyv, sugg, file, aux>>
       \/ \E e \in GenErrors : Catch(g, gens[g], e)

AfterAwait_NoTimeout(g, rec, op) ==
    IF ~op.done
    THEN Moves(g, [rec EXCEPT !.pc = "sleep"])
    ELSE IF op.result = "error" THEN Catch(g, rec, op.err)
    ELSE IF op.result = "nouri" THEN Catch(g, rec, PlainError)
    ELSE Moves(g, [rec EXCEPT !.pc = "fetch",
                     !.reqs = Append(@, Req("fetch", "user", "", NoImage, apiKey))])

\* generateVideo(): the while condition and the code after the loop, run with
\* the operation just received (or kept, after a swallowed poll error)
AfterAwait(g, rec, op) ==
    IF ~op.done /\ rec.elapsed < TIMEOUT_MS
    THEN Moves(g, [rec EXCEPT !.pc = "sleep"])
    ELSE IF ~op.done THEN TimedOut(g, rec)
    ELSE IF op.result = "error" THEN Catch(g, rec, op.err)
    ELSE IF op.result = "nouri" THEN Catch(g, rec, PlainError)
    ELSE Moves(g, [rec EXCEPT !.pc = "fetch",
                     !.reqs = Append(@, Req("fetch", "user", "", NoImage, apiKey))])

\* generateVideo(): generateVideos returned an operation or threw
VideoSubmitted(g) ==
    /\ gens[g].pc = "generateVideos"
    /\ \/ \E op \in Operations : AfterAwait(g, gens[g], op)
       \/ \E e \in GenErrors : Catch(g, gens[g], e)

\* generateVideo(): the 10-second wait ended; the status poll is sent
SleepDone(g) ==
    /\ gens[g].pc = "sleep"
    /\ Moves(g, [gens[g] EXCEPT !.pc = "poll", !.elapsed = @ + POLL_MS,
                   !.reqs = Append(@, Req("getVideosOperation", "user", "", NoImage, ai))])

\* generateVideo(): the poll threw e after l ms: a general-quota error is
\* rethrown, any other is logged and the loop goes on with the operation it had
PollThrew(g, l, e) ==
    LET rec == [gens[g] EXCEPT !.elapsed = @ + l]
    IN  IF analyzeApiError(e) = "GENERAL_QUOTA"
        THEN Catch(g, rec, e)
        ELSE AfterAwait(g, rec, [done |-> FALSE, result |-> "none", err |-> NoError])

\* generateVideo(): the poll returned an operation after l ms, or threw
PollReturned(g, l) ==
    \/ \E op \in Operations : AfterAwait(g, [gens[g] EXCEPT !.elapsed = @ + l], op)
    \/ \E e \in GenErrors : PollThrew(g, l, e)

PollDone(g) ==
    /\ gens[g].pc = "poll"
    /\ \E l \in PollLatencies : PollReturned(g, l)

\* the same with the latencies of SpecVideo
LatePollDone(g) ==
    /\ gens[g].pc = "poll"
    /\ \E l \in LatePollLatencies : PollReturned(g, l)

\* generateVideo(): fetch of the video returned or threw
FetchDone(g) ==
    /\ gens[g].pc = "fetch"
    /\ \/ Moves(g, [gens[g] EXCEPT !.pc = "blob"])
       \/ Catch(g, gens[g], PlainError)

\* generateVideo(): the blob arrived (player and download set, FileReader
\* started, resetUI, setStatus) or reading the body threw
BlobDone(g) ==
    /\ gens[g].pc = "blob"
    /\ \/ LET r == resetUI(isVideoDailyLimitReached, status)
          IN  /\ gens' = [gens EXCEPT ![g] = Done(gens[g], "success", NoError)]
              /\ readers' = readers \cup {[gen |-> g, prompt |-> gens[g].prompt]}
              /\ isGenerating' = r.isGenerating
              /\ timers' = r.timers
              /\ countdownInterval' = r.countdownInterval
              /\ ui' = r.ui
              /\ status' = StVideoOk
              /\ UNCHANGED <<isVideoDailyLimitReached, promptValue, videoChecked>>
              /\ UNCHANGED <<history, savedHistory, nextId>>
              /\ UNCHANGED <<keyv, sugg, file, aux>>
       \/ Catch(g, gens[g], PlainError)

\* reader.onloadend of generateVideo: addToHistory('video', ...)
ReaderDone(rd) ==
    /\ rd \in readers
    /\ readers' = readers \ {rd}
    /\ history' = addToHistory(history, "video", Result(rd.gen, "user"), rd.prompt, nextId)
    /\ savedHistory' = history'
    /\ nextId' = nextId + 1
    /\ UNCHANGED <<app, keyv, sugg, file, dom, gens, aux>>

\* startCountdown's updateCountdown, run by interval timer t, in the run in
\* which remaining < 0: clearInterval(countdownInterval). The earlier runs
\* only write the remaining time on the page. How many runs fit before a
\* request returns is open, so the run may come at any time.
CountdownExpired(t) ==
    /\ t \in timers
    /\ timers' = timers \ {countdownInterval}
    /\ UNCHANGED <<isGenerating, isVideoDailyLimitReached, countdownInterval>>
    /\ UNCHANGED <<keyv, hist, sugg, file, dom, gens, aux>>

\* ------------------------------------------------------------ suggestions
\* getNewExamplePrompts() once past its first line, up to its await
StartRefresh ==
    /\ refreshing < MaxRefresh
    /\ isGeneratingNewPrompts' = TRUE
    /\ refreshing' = refreshing + 1
    /\ LET r == UIAt(isGenerating, ai, isVideoDailyLimitReached, TRUE, status)
       IN  ui' = r.ui /\ status' = r.status
    /\ UNCHANGED <<examplePrompts, promptValue, videoChecked>>
    /\ UNCHANGED <<app, keyv, hist, file, gens, aux>>

getNewExamplePrompts_NoClientTest == StartRefresh

\* getNewExamplePrompts(), whoever calls it: "if (!ai) return", then the above
getNewExamplePrompts ==
    IF ai = NoKey THEN UNCHANGED vars ELSE StartRefresh

\* click on the refresh button: a disabled button fires no click
RefreshClick ==
    /\ ~ui.refresh
    /\ getNewExamplePrompts

\* What the suggestion request can do: return a batch (possibly empty), or throw
RefreshOutcomes ==
    {[ok |-> TRUE, batch |-> b, err |-> NoError] : b \in Batches}
        \cup {[ok |-> FALSE, batch |-> << >>, err |-> e] : e \in GenErrors}

examplePromptsAfter_NoLengthTest(out, list) ==
    IF out.ok THEN out.batch ELSE list

\* "if (result.prompts && result.prompts.length > 0) examplePrompts = result.prompts"
examplePromptsAfter(out, list) ==
    IF out.ok /\ Len(out.batch) > 0 THEN out.batch ELSE list

\* getNewExamplePrompts() after its await, with the outcome of the request:
\* the list and the status, then the finally block clears the flag and calls
\* updateUIState()
RefreshEnds(out) ==
    /\ refreshing > 0
    /\ refreshing' = refreshing - 1
    /\ isGeneratingNewPrompts' = FALSE
    /\ LET st == IF out.ok THEN (IF Len(out.batch) > 0 THEN "" ELSE status)
                 ELSE IF analyzeApiError(out.err) = "GENERAL_QUOTA" THEN StExamplesQuota
                 ELSE StExamplesFailed
           r == UIAt(isGenerating, ai, isVideoDailyLimitReached, FALSE, st)
       IN  /\ examplePrompts' = examplePromptsAfter(out, examplePrompts)
           /\ ui' = r.ui
           /\ status' = r.status
    /\ UNCHANGED <<promptValue, videoChecked>>
    /\ UNCHANGED <<app, keyv, hist, file, gens, aux>>

\* getNewExamplePrompts(): the request returned a batch (possibly empty) or
\* threw
RefreshDone ==
    \E out \in RefreshOutcomes : RefreshEnds(out)

\* ------------------------------------------------------------- attachment
\* handleFileUpload() for file f: a FileReader is started
StartFileRead(f) ==
    /\ ~ui.upload
    /\ fileReads' = fileReads \cup {f}
    /\ UNCHANGED uploadedImage
    /\ UNCHANGED <<app, keyv, hist, sugg, dom, gens>>

\* 'change' on the file input: handleFileUpload()
handleFileUpload(f) ==
    /\ StartFileRead(f)
    /\ UNCHANGED aux

\* the same, with the selection written to the log of the session
handleFileUploadLogged(f) ==
    /\ fileLog.n < MaxSelect
    /\ StartFileRead(f)
    /\ fileLog' = [n |-> fileLog.n + 1, last |-> f, removed |-> FALSE]
    /\ UNCHANGED <<clicks, inserts, classified>>

\* reader.onload of handleFileUpload: the attachment is set, updateUIState()
FileLoaded(f) ==
    /\ f \in fileReads
    /\ fileReads' = fileReads \ {f}
    /\ uploadedImage' = f
    /\ LET r == UIAt(isGenerating, ai, isVideoDailyLimitReached, isGeneratingNewPrompts, status)
       IN  ui' = r.ui /\ status' = r.status
    /\ UNCHANGED <<promptValue, videoChecked>>
    /\ UNCHANGED <<app, keyv, hist, sugg, gens, aux>>

\* removeUploadedImage(): the attachment is cleared, updateUIState()
ClearAttachment ==
    /\ uploadedImage # NoImage
    /\ uploadedImage' = NoImage
    /\ LET r == UIAt(isGenerating, ai, isVideoDailyLimitReached, isGeneratingNewPrompts, status)
       IN  ui' = r.ui /\ status' = r.status
    /\ UNCHANGED <<fileReads, promptValue, videoChecked>>
    /\ UNCHANGED <<app, keyv, hist, sugg, gens>>

\* click on the remove button of the preview: removeUploadedImage()
removeUploadedImage ==
    /\ ClearAttachment
    /\ UNCHANGED aux

\* the same, with the removal written to the log of the session
removeUploadedImageLogged ==
    /\ ClearAttachment
    /\ fileLog' = [fileLog EXCEPT !.removed = TRUE]
    /\ UNCHANGED <<clicks, inserts, classified>>

\* ------------------------------------------------------------------- spec
NextKey ==
    \/ \E k \in Keys, enter \in BOOLEAN : handleSaveApiKey(k, enter)
    \/ \E i \in 1..Len(vals) : ValidationSucceeds(i)
    \/ \E i \in 1..Len(vals) : ValidationFails(i)

NextDom ==
    \/ \E t \in UserTexts : PromptInput(t)
    \/ \E v \in BOOLEAN : handleModeChange(v)

NextGen ==
    \/ \E g \in 1..Len(gens) : ImageDone(g)
    \/ \E g \in 1..Len(gens) : VideoSubmitted(g)
    \/ \E g \in 1..Len(gens) : SleepDone(g)
    \/ \E g \in 1..Len(gens) : PollDone(g)
    \/ \E g \in 1..Len(gens) : FetchDone(g)
    \/ \E g \in 1..Len(gens) : BlobDone(g)
    \/ \E rd \in readers : ReaderDone(rd)

NextAttach ==
    \/ \E f \in Files : handleFileUpload(f)
    \/ \E f \in Files : FileLoaded(f)
    \/ removeUploadedImage
    \/ \E g \in 1..Len(gens) : EnrichDone(g)

NextSuggest ==
    \/ RefreshClick
    \/ RefreshDone
    \/ \E n \in 1..Len(examplePrompts) : ExampleClick(n)

\* The session: key onboarding, prompt and mode events, the attachment and
\* the generations the generate button starts
Next == NextKey \/ NextDom \/ GenerateClick \/ NextGen \/ NextAttach

Spec == Init /\ [][Next]_vars

\* The session without the attachment
NextNoAttach == NextKey \/ NextDom \/ GenerateClick \/ NextGen

\* The steps of generation g that answer a remote call or a wait
GenStep(g) ==
    \/ ImageDone(g) \/ VideoSubmitted(g) \/ SleepDone(g)
    \/ PollDone(g) \/ FetchDone(g) \/ BlobDone(g)

\* The session without the attachment in which every remote call and every
\* wait of a generation eventually returns or throws
FairSpec ==
    /\ Init /\ [][NextNoAttach]_vars
    /\ \A g \in 1..MaxGens : WF_vars(g <= Len(gens) /\ GenStep(g))

\* The same session without the attachment, with handleGenerateClick called
\* in any state, whatever the button shows
NextDirect == NextKey \/ NextDom \/ handleGenerateClick \/ NextGen

SpecDirect == Init /\ [][NextDirect]_vars

\* The generations of the session without the attachment, with polls that
\* take time and the countdown timer running out
NextGenLate ==
    \/ \E g \in 1..Len(gens) : ImageDone(g)
    \/ \E g \in 1..Len(gens) : VideoSubmitted(g)
    \/ \E g \in 1..Len(gens) : SleepDone(g)
    \/ \E g \in 1..Len(gens) : LatePollDone(g)
    \/ \E g \in 1..Len(gens) : FetchDone(g)
    \/ \E g \in 1..Len(gens) : BlobDone(g)
    \/ \E rd \in readers : ReaderDone(rd)
    \/ \E t \in timers : CountdownExpired(t)

NextVideo == NextKey \/ NextDom \/ GenerateClick \/ NextGenLate

SpecVideo == Init /\ [][NextVideo]_vars

\* The session with the suggestion refresh and the example prompts
NextAll == Next \/ NextSuggest

SpecAll == Init /\ [][NextAll]_vars

\* The session without the attachment, with the suggestions, with
\* handleGenerateClick and getNewExamplePrompts called in any state, whatever
\* the buttons show
NextSuggestDirect ==
    \/ NextKey \/ NextDom \/ NextGen
    \/ (Len(gens) < MaxGensSuggest /\ handleGenerateClick)
    \/ getNewExamplePrompts
    \/ RefreshDone
    \/ \E n \in 1..Len(examplePrompts) : ExampleClick(n)

SpecSuggest == Init /\ [][NextSuggestDirect]_vars

\* The session without the attachment, with the suggestions, every handler
\* behind its control, one generation
NextRefresh ==
    \/ NextKey \/ NextDom \/ NextGen
    \/ (Len(gens) < MaxGensSuggest /\ GenerateClick)
    \/ NextSuggest

SpecRefresh == Init /\ [][NextRefresh]_vars

\* Key onboarding and the attachment, with two files and a log of what the
\* user selected last and whether the attachment was removed since
NextAttachLogged ==
    \/ NextKey
    \/ \E f \in AttachFiles : handleFileUploadLogged(f)
    \/ \E f \in AttachFiles : FileLoaded(f)
    \/ removeUploadedImageLogged

SpecAttach == Init /\ [][NextAttachLogged]_vars

\* --------------------------------------------------- the history on its own
\* A list an earlier session wrote and saved: n entries, newest first
PastHistory(n) ==
    [i \in 1..n |-> [id |-> n + 1 - i, type |-> "image", dataUrl |-> [gen |-> 0, for |-> "user"], prompt |-> " a"]]

\* init() finds that list saved, and no key
InitHistory ==
    /\ \E n \in 0..HISTORY_CAP : InitWith(PastHistory(n))
    /\ storedKey = NoKey

\* addToHistory() of a result, then saveHistory()
Insert(type, prompt) ==
    /\ inserts < MaxInserts
    /\ inserts' = inserts + 1
    /\ history' = addToHistory(history, type, [gen |-> nextId, for |-> "user"], prompt, nextId)
    /\ savedHistory' = history'
    /\ nextId' = nextId + 1
    /\ UNCHANGED <<readers, clicks, classified, fileLog>>
    /\ UNCHANGED <<app, keyv, sugg, file, dom, gens>>

NextHistory ==
    \E type \in {"image", "video"}, prompt \in {" a", "horse"} : Insert(type, prompt)

SpecHistory == InitHistory /\ [][NextHistory]_vars

\* ----------------------------------------------- the classifier on its own
Classify(e) ==
    /\ classified' = [error |-> e, type |-> analyzeApiError(e)]
    /\ UNCHANGED <<clicks, inserts, fileLog>>
    /\ UNCHANGED <<app, keyv, hist, sugg, file, dom, gens>>

NextClassify == \E e \in Payloads : Classify(e)

SpecClassify == Init /\ [][NextClassify]_vars

\* ------------------------------------------------------------------ claims
InFlight == {g \in 1..Len(gens) : gens[g].pc # "done"}

\* C1: in every reachable state at most one generation (image or video) is
\* in flight
C1_OneGenerationInFlight == Cardinality(InFlight) <= 1

\* C2: handleGenerateClick called while the busy flag is true, or while the
\* trimmed prompt is empty, or while no key has been validated, issues no
\* request and leaves the busy flag, the status, the history and the sticky
\* daily-limit flag as they were
C2_RejectedClickIsNoOp ==
    [][(clicks' # clicks /\ (isGenerating \/ Trim(promptValue) = "" \/ ai = NoKey))
        => UNCHANGED <<isGenerating, status, history, savedHistory,
                       isVideoDailyLimitReached, gens>>]_vars

\* a call was turned away while a generation of a validated key was running
C2_Witness ==
    /\ clicks > Len(gens)
    /\ ai # NoKey
    /\ isGenerating
    /\ InFlight # {}

\* The step in which generation g reports its terminal outcome
Ends(g) == gens[g].pc # "done" /\ gens'[g].pc = "done"

\* C3 as stated: on each terminal outcome of a generation the busy flag is
\* false and the mode switches, the upload button, the prompt field and the
\* generate button are enabled
C3_ControlsReenabled ==
    [][\A g \in 1..Len(gens) : Ends(g) =>
         /\ ~isGenerating'
         /\ ~ui'.imageMode /\ ~ui'.videoMode /\ ~ui'.upload /\ ~ui'.prompt
         /\ ~ui'.generate]_vars

\* C3, amended: on each terminal outcome the busy flag is false and the mode
\* switches, the upload button and the prompt field are enabled; the generate
\* button is enabled unless the trimmed prompt is empty or video mode is
\* selected with the sticky daily-limit flag set
C3_ControlsReenabledUnlessBlocked ==
    [][\A g \in 1..Len(gens) : Ends(g) =>
         /\ ~isGenerating'
         /\ ~ui'.imageMode /\ ~ui'.videoMode /\ ~ui'.upload /\ ~ui'.prompt
         /\ ui'.generate <=> (Trim(promptValue') = ""
                              \/ (videoChecked' /\ isVideoDailyLimitReached'))]_vars

\* a video generation has failed on the daily limit: idle, inputs enabled,
\* generate button held back
C3_Witness ==
    /\ \E g \in 1..Len(gens) : gens[g].outcome = "failed" /\ gens[g].mode = "video"
    /\ InFlight = {}
    /\ ~isGenerating /\ ~ui.prompt /\ ~ui.upload
    /\ videoChecked /\ isVideoDailyLimitReached /\ ui.generate

\* C4: after every insertion the history, in memory and as saved, holds at
\* most 20 entries, newest first, and they are the most recent ones: on
\* overflow exactly the oldest entry is gone
C4_HistoryCappedNewestFirst ==
    /\ Len(history) <= 20
    /\ Len(history) = (IF nextId - 1 < 20 THEN nextId - 1 ELSE 20)
    /\ \A i \in 1..Len(history) : history[i].id = nextId - i
    /\ savedHistory = history

\* a full list took one more entry
C4_Witness ==
    /\ inserts > 0
    /\ nextId - 1 > 20
    /\ Len(history) = 20
    /\ history[1].id = nextId - 1

\* C5 as stated: a payload with code 429, or whose text contains "quota" or
\* "resource_exhausted", is classified general-quota whatever else it holds
C5_QuotaWhateverElse ==
    (classified.type # "none"
     /\ (classified.error.code = 429
         \/ Includes(classified.error, "quota")
         \/ Includes(classified.error, "resource_exhausted")))
    => classified.type = "GENERAL_QUOTA"

\* C5, amended: such a payload is classified general-quota unless it contains
\* "limited free generations per day", which makes it daily-limit; the
\* high-demand phrases change nothing
C5_QuotaUnlessDailyLimit ==
    classified.type # "none" =>
      /\ ((classified.error.code = 429
           \/ Includes(classified.error, "quota")
           \/ Includes(classified.error, "resource_exhausted"))
          /\ ~Includes(classified.error, "limited free generations per day"))
         => classified.type = "GENERAL_QUOTA"
      /\ Includes(classified.error, "limited free generations per day")
         => classified.type = "VIDEO_DAILY_LIMIT"

\* a payload with code 429 and a high-demand phrase was classified general-quota
C5_Witness ==
    /\ classified.error.code = 429
    /\ Includes(classified.error, "high demand")
    /\ ~Includes(classified.error, "quota")
    /\ classified.type = "GENERAL_QUOTA"

\* C6: a generation failure whose payload contains "limited free generations
\* per day" sets the sticky flag, and the flag once set stays set: it is true
\* exactly when some generation has failed with such a payload; the status
\* reported for that failure is a daily-limit message
C6_DailyLimitSticky ==
    [][/\ isVideoDailyLimitReached => isVideoDailyLimitReached'
       /\ \A g \in 1..Len(gens) :
            (Ends(g) /\ gens'[g].outcome = "failed"
             /\ Includes(gens'[g].err, "limited free generations per day"))
            => /\ isVideoDailyLimitReached'
               /\ status' \in {StDailyLimit, StDailyFixed}
       /\ isVideoDailyLimitReached' =>
            \E g \in 1..Len(gens') :
               /\ gens'[g].outcome = "failed"
               /\ Includes(gens'[g].err, "limited free generations per day")]_vars

\* the flag is set, and a later generation has ended since
C6_Witness ==
    /\ isVideoDailyLimitReached
    /\ \E g, h \in 1..Len(gens) :
         /\ g < h
         /\ gens[g].outcome = "failed"
         /\ Includes(gens[g].err, "limited free generations per day")
         /\ gens[h].outcome = "success"

\* A step of the kinds C7 lists: no key event and no step of a video generation
C7_ListedStep ==
    /\ vals' = vals
    /\ \A g \in 1..Len(gens) : gens[g].mode = "video" => gens'[g] = gens[g]

\* C7: once the sticky daily-limit flag is set no video generation is started
\* any more, and after every mode change, prompt edit, attachment change and
\* step of an image generation, whenever video mode is selected the generate
\* button is disabled and the status is the fixed daily-limit message
C7_VideoBlockedAfterDailyLimit ==
    [][/\ isVideoDailyLimitReached =>
            \A g \in 1..Len(gens') : g > Len(gens) => gens'[g].mode # "video"
       /\ (C7_ListedStep /\ isVideoDailyLimitReached /\ isVideoDailyLimitReached'
           /\ videoChecked')
          => (ui'.generate /\ status' = StDailyFixed)]_vars

\* C8: a video generation that ends because its job is not done when the
\* 60 seconds are over shows the timeout status, clears the busy flag and
\* appends no history entry
C8_TimeoutOutcome ==
    [][\A g \in 1..Len(gens) :
         (Ends(g) /\ gens'[g].outcome = "timeout") =>
           /\ status' = StTimeout
           /\ ~isGenerating'
           /\ history' = history /\ savedHistory' = savedHistory
           /\ readers' = readers]_vars

\* C9: with a validated key, image mode and no attachment, a generate click
\* sends one generateImages request carrying the prompt text as typed and
\* nothing else; when it succeeds no other request has been sent, one entry
\* of kind image with that prompt is put at the front of the history, and the
\* busy flag is false
C9_ImageEndToEnd ==
    [][/\ (Len(gens') = Len(gens) + 1 /\ ~videoChecked /\ uploadedImage = NoImage) =>
            LET new == gens'[Len(gens')]
            IN  /\ Trim(promptValue) # ""
                /\ new.prompt = promptValue
                /\ Len(new.reqs) = 1
                /\ new.reqs[1].api = "generateImages"
                /\ new.reqs[1].prompt = [kind |-> "user", text |-> promptValue]
       /\ \A g \in 1..Len(gens) :
            (Ends(g) /\ gens[g].mode = "image" /\ gens[g].image = NoImage
             /\ gens'[g].outcome = "success") =>
              /\ Len(gens[g].reqs) = 1
              /\ Len(history') = Len(history) + 1
              /\ history'[1].type = "image"
              /\ history'[1].prompt = gens[g].prompt
              /\ \A i \in 1..Len(history) : history'[i + 1] = history[i]
              /\ savedHistory' = history'
              /\ ~isGenerating']_vars

\* an image generation without attachment succeeded; its entry heads the history
C9_Witness ==
    /\ \E g \in 1..Len(gens) :
         /\ gens[g].mode = "image" /\ gens[g].outcome = "success"
         /\ Len(history) > 0
         /\ history[1].dataUrl.gen = g /\ history[1].type = "image" /\ history[1].prompt = " a"
    /\ uploadedImage = NoImage /\ fileReads = {}
    /\ ~isGenerating

\* What C10 says of a failed probe, and of when a key is saved
C10_FailureAndStorage ==
    /\ \A i \in 1..Len(vals) :
         (vals[i].pc = "probe" /\ vals'[i].pc = "failed") =>
           /\ apiKey' = NoKey
           /\ storedKey' = NoKey
           /\ status' = StInvalidKey
           /\ modalVisible'
           /\ isGenerating' /\ ui'.generate
           /\ ai' = ai
    /\ (storedKey' # storedKey /\ storedKey' # NoKey) =>
         \E i \in 1..Len(vals) :
            vals[i].pc = "probe" /\ vals'[i].pc = "ok" /\ vals[i].key = storedKey'

\* What C10 says of a successful probe, the generate button left aside
C10_Success(i) ==
    /\ ai' = vals[i].key
    /\ storedKey' = vals[i].key
    /\ status' = ""
    /\ ~modalVisible'
    /\ ~isGenerating'
    /\ ~ui'.prompt /\ ~ui'.imageMode /\ ~ui'.videoMode /\ ~ui'.upload

\* C10 as stated: a key validation whose probe succeeds makes the candidate
\* the key of the active client, saves it, clears the status and enables the
\* controls, the generate button included; one whose probe fails clears the
\* current key and the saved key, shows the invalid-key status and the key
\* prompt and leaves generation disabled; a key is saved only in the step in
\* which its own probe succeeds
C10_KeyValidation ==
    [][/\ \A i \in 1..Len(vals) :
            (vals[i].pc = "probe" /\ vals'[i].pc = "ok") =>
               (C10_Success(i) /\ ~ui'.generate)
       /\ C10_FailureAndStorage]_vars

\* C10 amended: as above, except that after a successful probe the generate
\* button is enabled exactly when the trimmed prompt is not empty and video
\* mode is not blocked by the daily limit
C10_KeyValidationGenerateByPrompt ==
    [][/\ \A i \in 1..Len(vals) :
            (vals[i].pc = "probe" /\ vals'[i].pc = "ok") =>
               /\ C10_Success(i)
               /\ ui'.generate <=> (Trim(promptValue') = ""
                                    \/ (videoChecked' /\ isVideoDailyLimitReached'))
       /\ C10_FailureAndStorage]_vars

\* a probe failed and, after it, the probe of another key succeeded
C10_Witness ==
    \E i, j \in 1..Len(vals) :
       /\ vals[i].pc = "failed" /\ vals[j].pc = "ok"
       /\ vals[i].key # vals[j].key
       /\ ai = vals[j].key /\ storedKey = vals[j].key
       /\ status = "" /\ ~isGenerating /\ ~modalVisible

\* The status polls generation g has sent so far
Polls(g) == {i \in 1..Len(gens[g].reqs) : gens[g].reqs[i].api = "getVideosOperation"}

\* C11: every started generation eventually is done with one of the outcomes
\* success, failed, timeout, with the busy flag false; once done its outcome
\* never changes; a video generation sends at most TIMEOUT_MS / POLL_MS polls
C11_EveryGenerationEnds ==
    /\ \A g \in 1..MaxGens :
         (g <= Len(gens) /\ gens[g].pc # "done") ~>
            (/\ g <= Len(gens) /\ gens[g].pc = "done"
             /\ gens[g].outcome \in {"success", "failed", "timeout"}
             /\ ~isGenerating)
    /\ [][\A g \in 1..Len(gens) :
            /\ gens[g].pc = "done" => gens'[g] = gens[g]
            /\ Ends(g) => (gens'[g].outcome \in {"success", "failed", "timeout"}
                           /\ ~isGenerating')]_vars
    /\ [](\A g \in 1..Len(gens) : Cardinality(Polls(g)) <= TIMEOUT_MS \div POLL_MS)

\* a video generation timed out after as many polls as fit, another failed
C11_Witness ==
    /\ Len(gens) = MaxGens
    /\ \A g \in 1..Len(gens) : gens[g].pc = "done"
    /\ \E g \in 1..Len(gens) : gens[g].outcome = "timeout"
    /\ \E g \in 1..Len(gens) : gens[g].outcome = "failed"
    /\ ~isGenerating

\* C12: a poll that throws an error not classified as general quota does not
\* end the generation: it goes on to the next wait with nothing resubmitted,
\* or times out if the 60 seconds are over; a poll that throws a general-quota
\* error ends the generation as failed, with the general-quota message as the
\* status and no history entry
C12_PollErrors ==
    [][\A g \in 1..Len(gens), l \in LatePollLatencies, e \in GenErrors :
         (gens[g].pc = "poll" /\ PollThrew(g, l, e)) =>
            IF analyzeApiError(e) = "GENERAL_QUOTA"
            THEN /\ gens'[g].pc = "done" /\ gens'[g].outcome = "failed"
                 /\ status' = StQuota
                 /\ history' = history /\ savedHistory' = savedHistory
                 /\ readers' = readers
            ELSE /\ gens'[g].outcome # "failed"
                 /\ \/ /\ gens'[g].pc = "sleep"
                       /\ gens'[g].reqs = gens[g].reqs
                       /\ gens[g].elapsed + l < TIMEOUT_MS
                    \/ /\ gens'[g].outcome = "timeout"
                       /\ gens[g].elapsed + l >= TIMEOUT_MS]_vars

\* C13: a status poll is sent at most TIMEOUT_MS after the job was submitted,
\* and the operation a video generation accepts as completed was received at
\* most TIMEOUT_MS after the job was submitted, whatever the polls' latencies
C13_NoPollAfterTimeout ==
    [][\A g \in 1..Len(gens) :
         /\ (gens[g].pc = "sleep" /\ gens'[g].pc = "poll") =>
               gens'[g].elapsed <= TIMEOUT_MS
         /\ (gens[g].pc = "poll" /\ gens'[g].pc = "fetch") =>
               gens'[g].elapsed <= TIMEOUT_MS]_vars

\* The image requests generation g has sent so far
ImageReqs(g) == {i \in 1..Len(gens[g].reqs) : gens[g].reqs[i].api = "generateImages"}

\* C14: in image mode with an attachment, when the enrichment request throws
\* an error not classified as general quota, one image request is sent, the
\* only one of the generation, with the prompt the user had entered; when it
\* throws a general-quota error, no image request is sent and the generation
\* ends as failed with the general-quota message as the status
C14_EnrichmentFailure ==
    [][\A g \in 1..Len(gens), e \in GenErrors :
         (gens[g].pc = "enrich" /\ EnrichThrew(g, e)) =>
            /\ gens[g].mode = "image" /\ gens[g].image # NoImage
            /\ ImageReqs(g) = {}
            /\ IF analyzeApiError(e) = "GENERAL_QUOTA"
               THEN /\ gens'[g].pc = "done" /\ gens'[g].outcome = "failed"
                    /\ status' = StQuota
               ELSE /\ gens'[g].pc = "generateImages"
                    /\ Len(gens'[g].reqs) = Len(gens[g].reqs) + 1
                    /\ gens'[g].reqs[Len(gens'[g].reqs)] =
                          [api |-> "generateImages",
                           prompt |-> [kind |-> "user", text |-> gens[g].prompt],
                           image |-> NoImage, key |-> ai]
                    /\ gens'[g].prompt = gens[g].prompt]_vars

\* C15: a generation keeps the prompt text entered when generate was clicked;
\* after a successful enrichment the image request carries the enriched
\* prompt; the history entry of an image, enriched or not, and of a video
\* carries the text entered at the click
C15_HistoryKeepsUserPrompt ==
    [][/\ Len(gens') = Len(gens) + 1 => gens'[Len(gens')].prompt = promptValue
       /\ \A g \in 1..Len(gens) :
            /\ gens'[g].pc # "done" => gens'[g].prompt = gens[g].prompt
            /\ (gens[g].pc = "enrich" /\ EnrichReturned(g)) =>
                  /\ gens'[g].reqs[Len(gens'[g].reqs)].api = "generateImages"
                  /\ gens'[g].reqs[Len(gens'[g].reqs)].prompt.kind = "enriched"
            /\ (gens[g].pc = "generateImages" /\ Ends(g) /\ gens'[g].outcome = "success") =>
                  /\ history'[1].dataUrl =
                        Result(g, gens[g].reqs[Len(gens[g].reqs)].prompt.kind)
                  /\ history'[1].prompt = gens[g].prompt
                  /\ history'[1].prompt \in UserTexts
            /\ (gens[g].pc = "blob" /\ Ends(g) /\ gens'[g].outcome = "success") =>
                  [gen |-> g, prompt |-> gens[g].prompt] \in readers'
       /\ \A rd \in readers \ readers' :
            /\ history'[1].dataUrl.gen = rd.gen
            /\ history'[1].prompt = rd.prompt]_vars

\* the image made from an enriched prompt is first in the history, under the
\* prompt the user typed
C15_Witness ==
    /\ Len(history) > 0
    /\ history[1].type = "image"
    /\ history[1].dataUrl.for = "enriched"
    /\ history[1].prompt = " a"
    /\ gens[history[1].dataUrl.gen].outcome = "success"

\* The generations that ended in success
Succeeded == {g \in 1..Len(gens) : gens[g].outcome = "success"}

\* The history entries and the pending reads of video data that generation g made
EntriesOf(g) == {i \in 1..Len(history) : history[i].dataUrl.gen = g}
ReadsOf(g) == {rd \in readers : rd.gen = g}

\* C16: each generation that ended in success has exactly one history entry
\* (for a video, once its data has been read), of the kind of its mode; the
\* history holds nothing else; the step that ends a generation as failed or
\* timed out leaves the history as it is; the step that ends an image
\* generation in success, and the one that reads a video's data, adds one entry
C16_OneEntryPerSuccess ==
    /\ [](/\ \A g \in Succeeded :
               /\ Cardinality(EntriesOf(g)) + Cardinality(ReadsOf(g)) = 1
               /\ gens[g].mode = "image" => ReadsOf(g) = {}
               /\ \A i \in EntriesOf(g) : history[i].type = gens[g].mode
          /\ \A g \in (1..Len(gens)) \ Succeeded : EntriesOf(g) = {} /\ ReadsOf(g) = {}
          /\ Len(history) + Cardinality(readers) = Cardinality(Succeeded)
          /\ savedHistory = history)
    /\ [][/\ \A g \in 1..Len(gens) :
              /\ (Ends(g) /\ gens'[g].outcome \in {"failed", "timeout"}) =>
                    (history' = history /\ readers' = readers)
              /\ (Ends(g) /\ gens'[g].outcome = "success" /\ gens[g].mode = "image") =>
                    Len(history') = Len(history) + 1
              /\ (Ends(g) /\ gens'[g].outcome = "success" /\ gens[g].mode = "video") =>
                    (history' = history /\ Cardinality(readers') = Cardinality(readers) + 1)
          /\ readers' \subseteq readers /\ readers' # readers =>
                Len(history') = Len(history) + 1]_vars

\* one generation succeeded and one timed out: one entry
C16_Witness ==
    /\ Len(gens) = 2
    /\ \E g \in 1..2 : gens[g].outcome = "timeout"
    /\ \E g \in 1..2 : gens[g].outcome = "success"
    /\ Len(history) = 1 /\ readers = {}

\* The message C17 expects for an error: one per category
C17_Message(e) ==
    LET type == analyzeApiError(e)
    IN  CASE type = "VIDEO_DAILY_LIMIT" ->
               "You have reached the daily limit for free video generations. Please try again tomorrow."
          [] type = "GENERAL_QUOTA" ->
               "You've exceeded your API usage quota. Please wait and try again later, or check your Google AI Studio plan and billing details."
          [] type = "HIGH_DEMAND" ->
               "The service is currently under high demand. Please try again in a few moments."
          [] type = "OTHER" -> "An unexpected error occurred. Please try again."

\* C17 as stated: the step that ends a generation as failed leaves the busy
\* flag false and, as status, the message of the category of its error
C17_StatusOfCategory ==
    [][\A g \in 1..Len(gens) :
         (Ends(g) /\ gens'[g].outcome = "failed") =>
            /\ ~isGenerating'
            /\ status' = C17_Message(gens'[g].err)]_vars

\* C17 amended: the step that ends a generation as failed leaves the busy
\* flag false and, as status, the message of the category of its error (the
\* four messages differ), unless video mode is selected and the sticky
\* daily-limit flag is set: then the status is the fixed daily-limit message
C17_StatusOfCategoryUnlessBlocked ==
    [][/\ Cardinality({C17_Message(e) : e \in GenErrors} \cup {StDailyFixed}) = 5
       /\ \A g \in 1..Len(gens) :
            (Ends(g) /\ gens'[g].outcome = "failed") =>
               /\ ~isGenerating'
               /\ status' = IF videoChecked' /\ isVideoDailyLimitReached'
                            THEN StDailyFixed
                            ELSE C17_Message(gens'[g].err)]_vars

\* generations failed in image mode and in video mode: the first on high
\* demand, the second on the daily limit, which leaves the fixed message
C17_Witness ==
    /\ Len(gens) = 2
    /\ gens[1].mode = "image" /\ gens[1].outcome = "failed"
    /\ analyzeApiError(gens[1].err) = "HIGH_DEMAND"
    /\ gens[2].mode = "video" /\ gens[2].outcome = "failed"
    /\ analyzeApiError(gens[2].err) = "VIDEO_DAILY_LIMIT"
    /\ videoChecked /\ ~isGenerating /\ status = StDailyFixed


\* C18: in every state the generate button is enabled exactly when a client
\* is set, the busy flag is false, the trimmed prompt is not empty and video
\* mode is not selected with the sticky daily-limit flag set; the mode
\* switches, the upload button and the prompt field are disabled exactly when
\* the busy flag is true; the label is 'Setup Required' without a client,
\* 'Generating...' when busy with a client, 'Generate' otherwise
C18_ControlsFollowState ==
    /\ ~ui.generate <=> (/\ ai # NoKey /\ ~isGenerating
                         /\ Trim(promptValue) # ""
                         /\ ~(videoChecked /\ isVideoDailyLimitReached))
    /\ ui.imageMode = isGenerating
    /\ ui.videoMode = isGenerating
    /\ ui.upload = isGenerating
    /\ ui.prompt = isGenerating
    /\ ui.label = IF ai = NoKey THEN "Setup Required"
                  ELSE IF isGenerating THEN "Generating..." ELSE "Generate"

\* idle with a client and a prompt, video mode blocked by the daily limit:
\* the button is disabled and reads 'Generate'
C18_Witness ==
    /\ ai # NoKey /\ ~isGenerating /\ Trim(promptValue) # ""
    /\ videoChecked /\ isVideoDailyLimitReached
    /\ ui.generate /\ ui.label = "Generate" /\ ~ui.videoMode


\* C19: while no key has passed validation (no client is set) the busy flag
\* is true, the generation controls are disabled, and no generation and no
\* suggestion request has been sent or is sent: the steps taken without a
\* client start nothing but validation probes; a client, once set, stays set
C19_NothingWithoutKey ==
    /\ [](/\ ai = NoKey <=> \A i \in 1..Len(vals) : vals[i].pc # "ok"
          /\ ai = NoKey =>
               /\ isGenerating
               /\ ui.generate /\ ui.imageMode /\ ui.videoMode /\ ui.upload
               /\ ui.prompt /\ ui.refresh /\ ui.examples
               /\ ui.label = "Setup Required"
               /\ gens = << >>
               /\ refreshing = 0 /\ ~isGeneratingNewPrompts)
    /\ [][/\ ai # NoKey => ai' # NoKey
          /\ ai = NoKey =>
               /\ gens' = gens
               /\ refreshing' = refreshing
               /\ \A i \in 1..Len(vals') : i > Len(vals) => vals'[i].pc = "probe"]_vars

\* two validations failed, no key passed: the key prompt is up, nothing else ran
C19_Witness ==
    /\ Len(vals) = 2
    /\ \A i \in 1..Len(vals) : vals[i].pc = "failed"
    /\ ai = NoKey /\ isGenerating /\ modalVisible
    /\ clicks > 0
    /\ gens = << >> /\ refreshing = 0


\* C20: at most one countdown timer runs in any state; none runs while the
\* busy flag is false once a generation has ended; the step that ends a video generation, as success,
\* failure or timeout, leaves no timer running; the step that starts a
\* countdown leaves its timer as the only one
C20_OneCountdownTimer ==
    /\ [](/\ Cardinality(timers) <= 1
          /\ (~isGenerating /\ \E g \in 1..Len(gens) : gens[g].pc = "done")
                => timers = {})
    /\ [][/\ \A g \in 1..Len(gens) :
               (Ends(g) /\ gens[g].mode = "video") =>
                  (timers' = {} /\ countdownInterval' = 0)
          /\ (Len(gens') = Len(gens) + 1 /\ gens'[Len(gens')].mode = "video") =>
                (timers' = {countdownInterval'} /\ countdownInterval' # 0)]_vars


\* C21: whenever a client is set and no generation is in flight, the current
\* key (the one the video fetch sends) is not null and is the key the client
\* was validated with; and with a client set the busy flag is true only
\* while a generation is in flight
C21_KeyAndBusyConsistent ==
    ai # NoKey =>
       /\ InFlight = {} => (apiKey # NoKey /\ apiKey = ai)
       /\ isGenerating => InFlight # {}


\* C22: the step that reports the success of a generation, image or video,
\* and sets the busy flag to false leaves that generation's entry first in
\* the history; and the history changes in no other step, so that its
\* entries are in the order in which their generations completed
C22_EntryBeforeIdle ==
    [][/\ \A g \in 1..Len(gens) :
            (Ends(g) /\ gens'[g].outcome = "success") =>
               /\ ~isGenerating'
               /\ Len(history') > 0
               /\ history'[1].dataUrl.gen = g
       /\ history' # history =>
            \E g \in 1..Len(gens) : Ends(g) /\ gens'[g].outcome = "success"]_vars


\* C23: after the user removed the attachment and selected no file since,
\* there is no attachment; once the reads of the selected files have all
\* completed, the attachment is the file selected last; and the attachment
\* changes only in the step of a removal or, with no removal since the last
\* selection, in a step that loads a selected file
C23_AttachmentFollowsUser ==
    /\ [](/\ fileLog.removed => uploadedImage = NoImage
          /\ (fileReads = {} /\ fileLog.n > 0 /\ ~fileLog.removed) =>
                uploadedImage = fileLog.last)
    /\ [][uploadedImage' # uploadedImage =>
            \/ uploadedImage' = NoImage /\ fileLog'.removed /\ ~fileLog.removed
            \/ uploadedImage' \in fileReads /\ ~fileLog.removed]_vars

\* C24: a refresh that ends after a failure or with an empty batch leaves the
\* example prompts as they were, one that ends with a non-empty batch makes
\* that batch the list, and each of them leaves the refresh-in-progress flag
\* false; the example prompts change in no other step; and at most one
\* refresh is in flight
C24_RefreshFrame ==
    /\ [](refreshing <= 1)
    /\ [][/\ \A out \in RefreshOutcomes :
               RefreshEnds(out) =>
                  /\ ~isGeneratingNewPrompts'
                  /\ (~out.ok \/ out.batch = << >>) => examplePrompts' = examplePrompts
                  /\ (out.ok /\ out.batch # << >>) => examplePrompts' = out.batch
          /\ examplePrompts' # examplePrompts =>
               \E out \in RefreshOutcomes :
                   out.ok /\ out.batch # << >> /\ RefreshEnds(out)]_vars

\* a refresh ended after a failure with the list a previous refresh had put in
\* place, and no refresh is in progress
C24_Witness ==
    /\ examplePrompts \in Batches
    /\ examplePrompts # << >>
    /\ refreshing = 0
    /\ ~isGeneratingNewPrompts
    /\ status \in {StExamplesQuota, StExamplesFailed}

====
